---- MODULE Spec2Model ----
(***************************************************************************)
(* Model of src/src/main.rs, the interactive focal-length search program.  *)
(*                                                                         *)
(* Two frames are captured from the camera, the AprilTag detector is run   *)
(* on both, and a loop reads focal-length guesses from standard input and  *)
(* prints the apparent distance and error of each tag for every guess.     *)
(*                                                                         *)
(* Numbers.  f64 values are modelled in fixed point: distances in          *)
(* millimetres, the error percentage in thousandths of a percent.  The     *)
(* {:.2} and {:.1} formats round to centimetres and tenths of a percent.   *)
(* The components of a pose translation are whole metres.                  *)
(***************************************************************************)
EXTENDS Integers, Sequences, FiniteSets, TLC

\* The detector returns at most this many detections for one frame.
MaxDetections == 2

Frames == {1, 2}

\* --tag-distance1 / --tag-distance2, in millimetres (any f64 parses, also 0).
RefDistances == {0, 3000, 5000}
\* --tag-width, in millimetres.
TagWidths == {100}
\* --with-delay, in seconds.
Delays == {0, -1}
\* Dimensions of a decoded frame.
Dims == {[width |-> 640, height |-> 480]}

\* What the operator may type before Enter (the line without its newline).
Lines == {<< >>, <<"5">>, <<"7">>, <<"x">>, <<" ", "7">>}
NL == "\n"

\* Pose translations (x, y, z) the estimator may return, in metres.
Translations == {<<3, 4, 0>>, <<-1, 1, 1>>}

VARIABLES
    pc,                 \* position in main: <<step, frame number or 0>>
    status,             \* "running", or how the process ended
    failed_step,        \* the fallible call whose error main returned
    tag_distance1, tag_distance2, tag_width, with_delay,   \* Cli
    stdin_open,         \* FALSE once a read has returned end-of-file
    input,              \* the String buffer `input`
    open_cameras,       \* camera handles that are open (by capture number)
    acquired,           \* frames acquired through each handle
    frame,              \* capture number of the raw frame held, 0 if none
    decoded,            \* decoded images: capture number -> dimensions
    saved,              \* PNG files written
    imgs,               \* images converted for the detector
    detections,         \* detections1, detections2
    fx,                 \* result of parsing the guess in this iteration
    pose,               \* result of the latest estimate_tag_pose
    asked,              \* frames whose pose was requested in this iteration
    apparent_distance,  \* the local `apparent_distance` (mm)
    out,                \* lines printed; the loop keeps those since its prompt
    seen                \* what each guess printed the first time it was entered

vars == <<pc, status, failed_step, tag_distance1, tag_distance2, tag_width,
          with_delay, stdin_open, input, open_cameras, acquired, frame,
          decoded, saved, imgs, detections, fx, pose, asked,
          apparent_distance, out, seen>>

cli == <<tag_distance1, tag_distance2, tag_width, with_delay>>
capture == <<open_cameras, acquired, frame, decoded, saved>>
iteration == <<fx, pose, asked, apparent_distance, seen>>

----------------------------------------------------------------------------
\* Pure helpers

Abs(a) == IF a < 0 THEN -a ELSE a

IsSpace(c) == c \in {" ", NL}

RECURSIVE TrimStart(_)
TrimStart(s) ==
    IF s # << >> /\ IsSpace(Head(s)) THEN TrimStart(Tail(s)) ELSE s

RECURSIVE TrimEnd(_)
TrimEnd(s) ==
    IF s # << >> /\ IsSpace(s[Len(s)])
    THEN TrimEnd(SubSeq(s, 1, Len(s) - 1))
    ELSE s

\* str::trim
Trim(s) == TrimEnd(TrimStart(s))

DigitChars == <<"0", "1", "2", "3", "4", "5", "6", "7", "8", "9">>
IsDigit(c) == \E i \in DOMAIN DigitChars : DigitChars[i] = c
DigitVal(c) == (CHOOSE i \in DOMAIN DigitChars : DigitChars[i] = c) - 1

RECURSIVE Decimal(_)
Decimal(s) ==
    IF s = << >> THEN 0
    ELSE 10 * Decimal(SubSeq(s, 1, Len(s) - 1)) + DigitVal(s[Len(s)])

ParseErr == [ok |-> FALSE, val |-> 0]

\* str::parse::<f64> on the unsigned decimal integers the operator types
\* here; the empty string and anything holding another character is an Err.
ParseF64(s) ==
    IF s # << >> /\ \A i \in DOMAIN s : IsDigit(s[i])
    THEN [ok |-> TRUE, val |-> Decimal(s)]
    ELSE ParseErr

\* The guesses the operator's lines can parse to.
Guesses == {ParseF64(Trim(l)).val : l \in {m \in Lines : ParseF64(Trim(m)).ok}}

NoPose == [some |-> FALSE, t |-> <<0, 0, 0>>]
PoseOpt == {NoPose} \cup {[some |-> TRUE, t |-> p] : p \in Translations}

\* A detection determines what estimate_tag_pose answers for each fx (the
\* tag size and the principal point do not change within a run).
PoseTables == [Guesses -> PoseOpt]

\* Vec::last().unwrap() on a non-empty vector
Last(s) == s[Len(s)]

RECURSIVE SqrtSearch(_, _, _)
SqrtSearch(v, lo, hi) ==
    IF lo = hi THEN lo
    ELSE LET mid == (lo + hi + 1) \div 2
         IN  IF mid * mid <= v THEN SqrtSearch(v, mid, hi)
             ELSE SqrtSearch(v, lo, mid - 1)

\* f64::sqrt of a sum of squares of metres, as millimetres
SqrtMm(sumsq) == SqrtSearch(sumsq * 1000000, 0, 1000 * (sumsq + 1))

\* (x.powi(2) + y.powi(2) + z.powi(2)).sqrt()
Norm(t) == SqrtMm(t[1] * t[1] + t[2] * t[2] + t[3] * t[3])

\* (apparent_distance - tag_distance).abs() / tag_distance * 100.0, in
\* thousandths of a percent; dividing by 0.0 gives inf (or NaN), not a number.
ErrorPct(d, ref) ==
    IF ref = 0
    THEN [finite |-> FALSE, milli |-> 0]
    ELSE [finite |-> TRUE, milli |-> (Abs(d - ref) * 100000) \div ref]

\* {:.2} of a distance: hundredths of a metre
Fmt2(mm) == (mm + 5) \div 10
\* {:.1} of a percentage: tenths of a percent
Fmt1(milli) == (milli + 50) \div 100

Msg(text) == [text |-> text, n |-> 0, val |-> 0, finite |-> TRUE]
DistanceMsg(n, d) ==
    [text |-> "Apparent distance", n |-> n, val |-> Fmt2(d), finite |-> TRUE]
ErrorMsg(n, e) ==
    [text |-> "Error", n |-> n, val |-> Fmt1(e.milli), finite |-> e.finite]

NoImage == [width |-> 0, height |-> 0]

\* Variant: the two reference distances are swapped.
TagDistanceCrossed(n) == IF n = 1 THEN tag_distance2 ELSE tag_distance1

TagDistance(n) == IF n = 1 THEN tag_distance1 ELSE tag_distance2

----------------------------------------------------------------------------
Init ==
    /\ pc = <<"build", 0>>
    /\ status = "running"
    /\ failed_step = <<"none", 0>>
    /\ tag_distance1 \in RefDistances
    /\ tag_distance2 \in RefDistances
    /\ tag_width \in TagWidths
    /\ with_delay \in Delays
    /\ stdin_open = TRUE
    /\ input = << >>
    /\ open_cameras = {}
    /\ acquired = [n \in Frames |-> 0]
    /\ frame = 0
    /\ decoded = [n \in Frames |-> NoImage]
    /\ saved = {}
    /\ imgs = [n \in Frames |-> NoImage]
    /\ detections = [n \in Frames |-> << >>]
    /\ fx = ParseErr
    /\ pose = NoPose
    /\ asked = << >>
    /\ apparent_distance = 0
    /\ out = << >>
    /\ seen = [g \in Guesses |-> << >>]

----------------------------------------------------------------------------
\* Control flow helpers

Exit == <<"exit", 0>>
LoopTop == <<"loop", 0>>

\* Variant: the error is noted and the failed call is made again.
FailRetry(step) ==
    /\ pc' = pc
    /\ status' = "running"
    /\ failed_step' = step
    /\ open_cameras' = {}

\* The `?` operator: main returns the error, its locals are dropped.
Fail(step) ==
    /\ pc' = Exit
    /\ status' = "failure"
    /\ failed_step' = step
    /\ open_cameras' = {}

\* A panic unwinds main.
Panic ==
    /\ pc' = Exit
    /\ status' = "panic"
    /\ open_cameras' = {}
    /\ UNCHANGED failed_step

Goto(next) ==
    /\ pc' = next
    /\ UNCHANGED <<status, failed_step>>

\* stdin.read_line(&mut input) returning Ok: a line with its newline is
\* appended to the buffer buf, or nothing at end-of-file.
ReadLineOk(buf) ==
    \/ /\ stdin_open
       /\ \E l \in Lines : input' = buf \o l \o <<NL>>
       /\ stdin_open' = TRUE
    \/ /\ input' = buf
       /\ stdin_open' = FALSE

----------------------------------------------------------------------------
\* Start-up and the two captures

BuildDetector ==
    /\ pc = <<"build", 0>>
    /\ \/ Goto(<<"enter", 1>>) /\ UNCHANGED open_cameras
       \/ Fail(pc)
    /\ UNCHANGED <<cli, stdin_open, input, acquired, frame, decoded, saved,
                   imgs, detections, iteration, out>>

WaitEnter(n) ==
    /\ pc = <<"enter", n>>
    /\ out' = Append(out, Msg(IF n = 1
                              THEN "Press Enter to capture the first frame"
                              ELSE "Press Enter to capture the second frame"))
    /\ \/ ReadLineOk(input) /\ Goto(<<"sleep", n>>) /\ UNCHANGED open_cameras
       \/ Fail(pc) /\ UNCHANGED <<input, stdin_open>>
    /\ UNCHANGED <<cli, acquired, frame, decoded, saved, imgs, detections,
                   iteration>>

Sleep(n) ==
    /\ pc = <<"sleep", n>>
    /\ IF with_delay < 0
       THEN Panic /\ UNCHANGED out
       ELSE /\ Goto(<<"camera_new", n>>)
            /\ out' = Append(out, Msg("Capturing frame"))
            /\ UNCHANGED open_cameras
    /\ UNCHANGED <<cli, stdin_open, input, acquired, frame, decoded, saved,
                   imgs, detections, iteration>>

CameraNew(n) ==
    /\ pc = <<"camera_new", n>>
    /\ \/ Goto(<<"open_stream", n>>) /\ open_cameras' = open_cameras \cup {n}
       \/ Fail(pc)
    /\ UNCHANGED <<cli, stdin_open, input, acquired, frame, decoded, saved,
                   imgs, detections, iteration, out>>

OpenStream(n) ==
    /\ pc = <<"open_stream", n>>
    /\ \/ Goto(<<"frame", n>>) /\ UNCHANGED open_cameras
       \/ Fail(pc)
    /\ UNCHANGED <<cli, stdin_open, input, acquired, frame, decoded, saved,
                   imgs, detections, iteration, out>>

Frame(n) ==
    /\ pc = <<"frame", n>>
    /\ \/ /\ Goto(<<"drop", n>>)
          /\ frame' = n
          /\ acquired' = [acquired EXCEPT ![n] = @ + 1]
          /\ UNCHANGED open_cameras
       \/ Fail(pc) /\ UNCHANGED <<frame, acquired>>
    /\ UNCHANGED <<cli, stdin_open, input, decoded, saved, imgs, detections,
                   iteration, out>>

\* Variant: the camera is not dropped after the frame is acquired.
DropCameraLeak(n) ==
    /\ pc = <<"drop", n>>
    /\ out' = Append(out, Msg("Captured frame"))
    /\ Goto(<<"decode", n>>)
    /\ UNCHANGED <<cli, stdin_open, input, open_cameras, acquired, frame,
                   decoded, saved, imgs, detections, iteration>>

DropCamera(n) ==
    /\ pc = <<"drop", n>>
    /\ open_cameras' = open_cameras \ {n}
    /\ out' = Append(out, Msg("Captured frame"))
    /\ Goto(<<"decode", n>>)
    /\ UNCHANGED <<cli, stdin_open, input, acquired, frame, decoded, saved,
                   imgs, detections, iteration>>

Decode(n) ==
    /\ pc = <<"decode", n>>
    /\ \/ /\ Goto(<<"save", n>>)
          /\ \E d \in Dims : decoded' = [decoded EXCEPT ![frame] = d]
          /\ UNCHANGED open_cameras
       \/ Fail(pc) /\ UNCHANGED decoded
    /\ UNCHANGED <<cli, stdin_open, input, acquired, frame, saved, imgs,
                   detections, iteration, out>>

\* Variant: detection follows the first capture directly.
SaveSkipsSecond(n) ==
    /\ pc = <<"save", n>>
    /\ \/ /\ Goto(<<"convert", 0>>)
          /\ saved' = saved \cup {n}
          /\ UNCHANGED open_cameras
       \/ Fail(pc) /\ UNCHANGED saved
    /\ UNCHANGED <<cli, stdin_open, input, acquired, frame, decoded, imgs,
                   detections, iteration, out>>

Save(n) ==
    /\ pc = <<"save", n>>
    /\ \/ /\ Goto(IF n = 1 THEN <<"enter", 2>> ELSE <<"convert", 0>>)
          /\ saved' = saved \cup {n}
          /\ UNCHANGED open_cameras
       \/ Fail(pc) /\ UNCHANGED saved
    /\ UNCHANGED <<cli, stdin_open, input, acquired, frame, decoded, imgs,
                   detections, iteration, out>>

----------------------------------------------------------------------------
\* Detection

Convert ==
    /\ pc = <<"convert", 0>>
    /\ imgs' = decoded
    /\ Goto(<<"detect", 1>>)
    /\ UNCHANGED <<cli, stdin_open, input, capture, detections, iteration,
                   out>>

\* detector.detect(&img): any number of detections up to the bound.
DetectOutcomes ==
    {[i \in 1..k |-> [id |-> i, poseAt |-> f]] :
        k \in 0..MaxDetections, f \in PoseTables}

Detect(n) ==
    /\ pc = <<"detect", n>>
    /\ imgs[n] # NoImage
    /\ \E ds \in DetectOutcomes : detections' = [detections EXCEPT ![n] = ds]
    /\ Goto(IF n = 1 THEN <<"detect", 2>> ELSE <<"check", 0>>)
    /\ UNCHANGED <<cli, stdin_open, input, capture, imgs, iteration, out>>

\* Variant: only the first image's count is checked.
CountVerdictFirstOnly(d1, d2) ==
    IF Len(d1) > 1 THEN "Multiple tags found in first image"
    ELSE IF d1 = << >> THEN "No tags found in first image"
    ELSE ""

\* The message of the early return, "" when the loop is to be entered.
CountVerdict(d1, d2) ==
    IF Len(d1) > 1 THEN "Multiple tags found in first image"
    ELSE IF Len(d2) > 1 THEN "Multiple tags found in second image"
    ELSE IF d1 = << >> THEN "No tags found in first image"
    ELSE IF d2 = << >> THEN "No tags found in second image"
    ELSE ""

CheckCounts ==
    /\ pc = <<"check", 0>>
    /\ LET verdict == CountVerdict(detections[1], detections[2])
       IN  IF verdict # ""
           THEN /\ out' = Append(out, Msg(verdict))
                /\ pc' = Exit
                /\ status' = "ok"
           ELSE /\ pc' = LoopTop
                /\ UNCHANGED <<out, status>>
    /\ UNCHANGED <<failed_step, cli, stdin_open, input, capture, imgs,
                   detections, iteration>>

----------------------------------------------------------------------------
\* The interactive loop

\* What a guess printed is remembered the first time the guess is entered.
Remember(guess, printed) ==
    IF guess.ok /\ seen[guess.val] = << >>
    THEN [seen EXCEPT ![guess.val] = printed]
    ELSE seen

\* `continue`, or the end of the loop body: back to the top of the loop.
Continue(guess, printed) ==
    /\ pc' = LoopTop
    /\ out' = printed
    /\ seen' = Remember(guess, printed)
    /\ UNCHANGED <<status, failed_step, open_cameras>>

\* Variant: the buffer is not emptied.
NoClear(buf) == buf

\* input.clear()
Clear(buf) == << >>

LoopRead ==
    /\ pc = LoopTop
    /\ out' = <<Msg("Type a guess for focal length px")>>
    /\ fx' = ParseErr
    /\ pose' = NoPose
    /\ asked' = << >>
    /\ apparent_distance' = 0
    /\ \/ ReadLineOk(Clear(input)) /\ Goto(<<"parse", 0>>)
          /\ UNCHANGED open_cameras
       \/ Fail(pc) /\ input' = Clear(input) /\ UNCHANGED stdin_open
    /\ UNCHANGED <<cli, acquired, frame, decoded, saved, imgs, detections,
                   seen>>

\* Variant: a guess that does not parse is propagated with `?`.
ParseGuessFatal ==
    /\ pc = <<"parse", 0>>
    /\ LET guess == ParseF64(Trim(input))
       IN  /\ fx' = guess
           /\ IF guess.ok
              THEN /\ Goto(<<"pose", 1>>)
                   /\ UNCHANGED <<out, seen, open_cameras>>
              ELSE Fail(pc) /\ UNCHANGED <<out, seen>>
    /\ UNCHANGED <<cli, stdin_open, input, acquired, frame, decoded, saved,
                   imgs, detections, pose, asked, apparent_distance>>

ParseGuess ==
    /\ pc = <<"parse", 0>>
    /\ LET guess == ParseF64(Trim(input))
       IN  /\ fx' = guess
           /\ IF guess.ok
              THEN /\ Goto(<<"pose", 1>>)
                   /\ UNCHANGED <<out, seen, open_cameras>>
              ELSE Continue(guess, Append(out, Msg("Failed to read f64")))
    /\ UNCHANGED <<cli, stdin_open, input, acquired, frame, decoded, saved,
                   imgs, detections, pose, asked, apparent_distance>>

TagParams(n) ==
    [tagsize |-> tag_width, fx |-> fx.val, fy |-> fx.val,
     cx |-> imgs[n].width \div 2, cy |-> imgs[n].height \div 2]

\* Detection::estimate_tag_pose
EstimateTagPose(detection, params) == detection.poseAt[params.fx]

\* Variant: a failed estimate for the first frame does not end the iteration.
EstimatePoseNoContinue(n) ==
    /\ pc = <<"pose", n>>
    /\ IF detections[n] = << >>
       THEN Panic /\ UNCHANGED <<pose, asked, out, seen>>
       ELSE LET estimate == EstimateTagPose(Last(detections[n]), TagParams(n))
            IN  /\ pose' = estimate
                /\ asked' = Append(asked, n)
                /\ IF estimate.some
                   THEN /\ Goto(<<"print", n>>)
                        /\ UNCHANGED <<out, seen, open_cameras>>
                   ELSE IF n = 1
                   THEN /\ Goto(<<"pose", 2>>)
                        /\ out' = Append(out, Msg("Failed to estimate pose"))
                        /\ UNCHANGED <<seen, open_cameras>>
                   ELSE Continue(fx, Append(out, Msg("Failed to estimate pose")))
    /\ UNCHANGED <<cli, stdin_open, input, acquired, frame, decoded, saved,
                   imgs, detections, fx, apparent_distance>>

EstimatePose(n) ==
    /\ pc = <<"pose", n>>
    /\ IF detections[n] = << >>
       THEN Panic /\ UNCHANGED <<pose, asked, out, seen>>
       ELSE LET estimate == EstimateTagPose(Last(detections[n]), TagParams(n))
            IN  /\ pose' = estimate
                /\ asked' = Append(asked, n)
                /\ IF estimate.some
                   THEN /\ Goto(<<"print", n>>)
                        /\ UNCHANGED <<out, seen, open_cameras>>
                   ELSE Continue(fx, Append(out, Msg("Failed to estimate pose")))
    /\ UNCHANGED <<cli, stdin_open, input, acquired, frame, decoded, saved,
                   imgs, detections, fx, apparent_distance>>

PrintResult(n) ==
    /\ pc = <<"print", n>>
    /\ LET distance == Norm(pose.t)
           printed == out \o <<DistanceMsg(n, distance),
                               ErrorMsg(n, ErrorPct(distance, TagDistance(n)))>>
       IN  /\ apparent_distance' = distance
           /\ IF n = 1
              THEN /\ Goto(<<"pose", 2>>)
                   /\ out' = printed
                   /\ UNCHANGED <<seen, open_cameras>>
              ELSE Continue(fx, printed)
    /\ UNCHANGED <<cli, stdin_open, input, acquired, frame, decoded, saved,
                   imgs, detections, fx, pose, asked>>

----------------------------------------------------------------------------
Next ==
    \/ BuildDetector
    \/ \E n \in Frames : WaitEnter(n)
    \/ \E n \in Frames : Sleep(n)
    \/ \E n \in Frames : CameraNew(n)
    \/ \E n \in Frames : OpenStream(n)
    \/ \E n \in Frames : Frame(n)
    \/ \E n \in Frames : DropCamera(n)
    \/ \E n \in Frames : Decode(n)
    \/ \E n \in Frames : Save(n)
    \/ Convert
    \/ \E n \in Frames : Detect(n)
    \/ CheckCounts
    \/ LoopRead
    \/ ParseGuess
    \/ \E n \in Frames : EstimatePose(n)
    \/ \E n \in Frames : PrintResult(n)

Spec == Init /\ [][Next]_vars

----------------------------------------------------------------------------
\* Vocabulary of the properties

CaptureSteps ==
    {"enter", "sleep", "camera_new", "open_stream", "frame", "drop", "decode",
     "save"}
DetectSteps == {"convert", "detect", "check"}
LoopSteps == {"loop", "parse", "pose", "print"}

Prompt == "Type a guess for focal length px"
ResultTexts == {"Apparent distance", "Error"}

Texts(o) == {o[i].text : i \in DOMAIN o}
Shape(o) == [i \in DOMAIN o |-> <<o[i].text, o[i].n>>]

\* detector.detect has returned for both frames
DetectionDone ==
    /\ imgs[2] # NoImage
    /\ pc \notin {<<"detect", 1>>, <<"detect", 2>>}

ExactlyOneEach == Len(detections[1]) = 1 /\ Len(detections[2]) = 1

\* What the estimator answers for frame n's detection with this iteration's fx
Estimate(n) == Last(detections[n]).poseAt[fx.val]

\* What one read_line can append to the buffer
Deliveries == {l \o <<NL>> : l \in Lines} \cup {<< >>}

SumSq(t) == t[1] * t[1] + t[2] * t[2] + t[3] * t[3]

----------------------------------------------------------------------------
\* C1: when the detector has returned a count other than one for either
\* frame, main prints the count message and returns successfully; the loop is
\* never entered, no pose is requested, no guess is prompted for and no
\* apparent distance or error is printed.  The loop is entered only with
\* exactly one detection in each frame.
C1_CountGuardsLoop ==
    (DetectionDone /\ ~ExactlyOneEach) =>
        /\ pc \in {<<"check", 0>>, Exit}
        /\ asked = << >>
        /\ pose = NoPose
        /\ Texts(out) \cap (ResultTexts \cup {Prompt}) = {}
        /\ pc = Exit =>
              /\ status = "ok"
              /\ Last(out).text \in
                    {"Multiple tags found in first image",
                     "Multiple tags found in second image",
                     "No tags found in first image",
                     "No tags found in second image"}

\* One tag in the first frame, two in the second: main has returned.
C1_Witness ==
    /\ pc = Exit
    /\ status = "ok"
    /\ Len(detections[1]) = 1
    /\ Len(detections[2]) = 2
    /\ Last(out).text = "Multiple tags found in second image"

\* C2: once the loop's read has returned at end-of-file, the loop stops:
\* the next step leaves the loop instead of going back to prompt again.
C2_EofEndsLoop ==
    [][(pc = <<"parse", 0>> /\ ~stdin_open) => pc' = Exit]_vars

\* C3: in the loop, a guess that does not parse and an absent pose estimate
\* are each reported with their message and lead back to the top of the loop,
\* where the next prompt is issued; the process keeps running.
C3_FailuresContinue ==
    /\ [][/\ (pc = <<"parse", 0>> /\ ~ParseF64(Trim(input)).ok) =>
                /\ pc' = LoopTop
                /\ status' = "running"
                /\ out' = Append(out, Msg("Failed to read f64"))
          /\ \A n \in Frames :
                (pc = <<"pose", n>> /\ detections[n] # << >>
                                    /\ ~Estimate(n).some) =>
                    /\ pc' = LoopTop
                    /\ status' = "running"
                    /\ out' = Append(out, Msg("Failed to estimate pose"))
         ]_vars
    /\ [](pc = LoopTop => (status = "running" /\ ENABLED LoopRead))

\* A guess failed to parse after an earlier guess's second estimate failed.
C3_Witness ==
    /\ pc = LoopTop
    /\ status = "running"
    /\ Last(out).text = "Failed to read f64"
    /\ \E g \in Guesses :
          /\ Len(seen[g]) = 4
          /\ Last(seen[g]).text = "Failed to estimate pose"

\* C4 as stated: after a guess that parsed, the estimator has been asked for
\* both frames, and results are printed for every frame whose estimate
\* succeeds.
C4_BothFramesAsked ==
    (pc = LoopTop /\ fx.ok) =>
        /\ asked = <<1, 2>>
        /\ \A n \in Frames :
              Estimate(n).some =>
                  \E i \in DOMAIN out :
                      out[i].text = "Apparent distance" /\ out[i].n = n

\* C4 as amended: after a guess that parsed, frame 1's pose has been asked
\* for; frame 2's is asked for only when frame 1's estimate succeeded.
\* Result 1 is printed exactly when estimate 1 succeeds and result 2 exactly
\* when both succeed, result 1 before result 2.
C4_SecondOnlyAfterFirst ==
    (pc = LoopTop /\ fx.ok) =>
        IF ~Estimate(1).some
        THEN /\ asked = <<1>>
             /\ Shape(out) = <<<<Prompt, 0>>, <<"Failed to estimate pose", 0>>>>
        ELSE /\ asked = <<1, 2>>
             /\ IF Estimate(2).some
                THEN Shape(out) = <<<<Prompt, 0>>,
                                    <<"Apparent distance", 1>>, <<"Error", 1>>,
                                    <<"Apparent distance", 2>>, <<"Error", 2>>>>
                ELSE Shape(out) = <<<<Prompt, 0>>,
                                    <<"Apparent distance", 1>>, <<"Error", 1>>,
                                    <<"Failed to estimate pose", 0>>>>

\* Both estimates succeeded and both results were printed.
C4_Witness ==
    /\ pc = LoopTop
    /\ fx.ok
    /\ Estimate(1).some
    /\ Estimate(2).some
    /\ Len(out) = 5

\* C5: at most one camera handle is open; a handle acquires at most one
\* frame, and exactly one by the time it is dropped; it is open only between
\* Camera::new and drop(camera), so never while a frame is decoded or saved,
\* while the next capture is awaited, during detection or in the loop.
C5_CameraScoped ==
    /\ Cardinality(open_cameras) <= 1
    /\ \A n \in Frames : acquired[n] <= 1
    /\ open_cameras # {} =>
          /\ pc[1] \in {"open_stream", "frame", "drop"}
          /\ open_cameras = {pc[2]}
    /\ \A n \in Frames :
          /\ pc = <<"drop", n>> => (open_cameras = {n} /\ acquired[n] = 1)
          /\ pc \in {<<"decode", n>>, <<"save", n>>} =>
                (open_cameras = {} /\ acquired[n] = 1)
          /\ decoded[n] # NoImage => acquired[n] = 1

\* The second handle is open after the first one acquired its frame.
C5_Witness ==
    /\ pc = <<"frame", 2>>
    /\ open_cameras = {2}
    /\ acquired = [n \in Frames |-> IF n = 1 THEN 1 ELSE 0]
    /\ decoded[1] # NoImage

\* C6: a failure of detector construction, Camera::new, open_stream, frame
\* or decode_image ends the run at once with a failure status: nothing more
\* can run, the failed step has left no result, no step after it has had an
\* effect, and no guess prompt or result has been printed.
C6_FatalErrors ==
    failed_step[1] \in {"build", "camera_new", "open_stream", "frame", "decode"}
    =>
        /\ pc = Exit
        /\ status = "failure"
        /\ ~ENABLED Next
        /\ open_cameras = {}
        /\ asked = << >>
        /\ Texts(out) \cap (ResultTexts \cup {Prompt}) = {}
        /\ imgs = [n \in Frames |-> NoImage]
        /\ detections = [n \in Frames |-> << >>]
        /\ failed_step[1] = "build" => out = << >>
        /\ failed_step[1] \in {"camera_new", "open_stream", "frame"} =>
              acquired[failed_step[2]] = 0
        /\ failed_step[2] \in Frames =>
              /\ decoded[failed_step[2]] = NoImage
              /\ failed_step[2] \notin saved
        /\ failed_step[2] <= 1 =>
              /\ acquired[2] = 0
              /\ decoded[2] = NoImage
              /\ "Press Enter to capture the second frame" \notin Texts(out)

\* The second frame's acquisition failed after the first frame was saved.
C6_Witness ==
    /\ failed_step = <<"frame", 2>>
    /\ pc = Exit
    /\ status = "failure"
    /\ saved = {1}

\* C7: the error percentage is never computed with a reference distance that
\* is zero or negative.
C7_ZeroReferenceRejected ==
    \A i \in DOMAIN out :
        out[i].text = "Error" =>
            (IF out[i].n = 1 THEN tag_distance1 ELSE tag_distance2) > 0

\* C8: when result N has just been printed, apparent_distance is the
\* Euclidean norm of frame N's own translation (to the millimetre), the
\* printed distance is that value to the centimetre, and the printed error is
\* |apparent_distance - tag_distanceN| / tag_distanceN * 100 to a tenth of a
\* percent, with frame N's own reference distance.  (3,4,0) prints 5.00 and
\* a distance of 5 against a reference of 5 prints an error of 0.
C8_DistanceAndError ==
    (out # << >> /\ Last(out).text = "Error") =>
        LET n == Last(out).n
            dist == out[Len(out) - 1]
            err == Last(out)
            t == Last(detections[n]).poseAt[fx.val].t
            ref == IF n = 1 THEN tag_distance1 ELSE tag_distance2
            d == apparent_distance
        IN  /\ n \in Frames
            /\ dist.text = "Apparent distance"
            /\ dist.n = n
            /\ d * d <= SumSq(t) * 1000000
            /\ SumSq(t) * 1000000 < (d + 1) * (d + 1)
            /\ 10 * dist.val - 5 <= d
            /\ d < 10 * dist.val + 5
            /\ err.finite = (ref # 0)
            /\ ref > 0 =>
                  /\ (100 * err.val - 50) * ref <= Abs(d - ref) * 100000
                  /\ Abs(d - ref) * 100000 < (100 * err.val + 50) * ref
            /\ t = <<3, 4, 0>> => (d = 5000 /\ dist.val = 500)
            /\ (d = 5000 /\ ref = 5000) => err.val = 0

\* Both results printed, with different translations and different non-zero
\* reference distances.
C8_Witness ==
    /\ pc = LoopTop
    /\ Len(out) = 5
    /\ tag_distance1 = 5000
    /\ tag_distance2 = 3000
    /\ Estimate(1).t = <<3, 4, 0>>
    /\ Estimate(2).t = <<-1, 1, 1>>
    /\ out[2].val = 500
    /\ out[3].val = 0

C10_LoopIsStateless ==
    /\ [][pc[1] \in LoopSteps =>
            UNCHANGED <<detections, imgs, decoded, tag_width, tag_distance1,
                        tag_distance2>>]_vars
    /\ []((pc = LoopTop /\ Prompt \notin Texts(out)) =>
            \E a, b \in Deliveries : input = a \o b)
    /\ [](pc = <<"parse", 0>> => input \in Deliveries)
    /\ [](pc[1] \in {"pose", "print"} =>
            (fx.ok /\ \E l \in Lines : input = l \o <<NL>>
                                       /\ fx = ParseF64(Trim(l))))
    /\ []((pc = LoopTop /\ fx.ok) => out = seen[fx.val])

\* A guess that printed both results before has been read again.
C10_Witness ==
    /\ pc = <<"parse", 0>>
    /\ ParseF64(Trim(input)).ok
    /\ Len(seen[ParseF64(Trim(input)).val]) = 5

====
